---- MODULE Spec2Model ----
(***************************************************************************)
(* Command-line argument layer of thriftgo (args.go).                      *)
(*                                                                         *)
(* Strings are sequences of one-character strings, so that the flag        *)
(* syntax ("-", "--", "name=value"), string concatenation and column       *)
(* offsets are computed rather than assumed.                               *)
(***************************************************************************)
EXTENDS Integers, Sequences, FiniteSets, TLC

VARIABLES
  a,        \* the Arguments value
  argv,     \* the argument vector handed to Parse (argv[1] is the program name)
  args,     \* flag.FlagSet.args: the tokens not yet consumed
  pc,       \* position in Parse: "start", "flags", "version", "rest", "returned"
  status,   \* process exit status, Running while the process lives
  stderr,   \* lines written to the diagnostic stream, in order
  err,      \* the error of flag parsing: "" (none), "ErrHelp" or a message
  trail,    \* history: the flag occurrences parsed so far, <<name, value>>
  parser,   \* the external compact-specification parser, as the set of strings it rejects
  calls,    \* history: the calls made (parser invocations / consumer calls)
  ret,      \* the value returned by the last consumer call
  logs,     \* the backend.LogFunc made by MakeLogFunc
  opts,     \* the option list handed to align
  text      \* the text align returned

vars == <<a, argv, args, pc, status, stderr, err, trail, parser, calls, ret, logs, opts, text>>

----------------------------------------------------------------------------
(* Bounds *)

MaxArgs == 3
MaxEntries == 3
MaxCalls == 2
MaxBatch == 2
MaxOpts == 3

Running == -1

----------------------------------------------------------------------------
(* Strings *)

SeqUpTo(S, n) == UNION {[1..k -> S] : k \in 0..n}

n_version == <<"v","e","r","s","i","o","n">>
n_r       == <<"r">>
n_recurse == <<"r","e","c","u","r","s","e">>
n_v       == <<"v">>
n_verbose == <<"v","e","r","b","o","s","e">>
n_q       == <<"q">>
n_quiet   == <<"q","u","i","e","t">>
n_o       == <<"o">>
n_out     == <<"o","u","t">>
n_i       == <<"i">>
n_include == <<"i","n","c","l","u","d","e">>
n_g       == <<"g">>
n_gen     == <<"g","e","n">>
n_p       == <<"p">>
n_plugin  == <<"p","l","u","g","i","n">>
n_h       == <<"h">>
n_help    == <<"h","e","l","p">>
n_x       == <<"x">>

s_a       == <<"a">>
s_b       == <<"b">>
s_false   == <<"f","a","l","s","e">>
s_true    == <<"t","r","u","e">>

Dash(name)      == <<"-">> \o name
DashDash(name)  == <<"-","-">> \o name
Eq(flag, value) == flag \o <<"=">> \o value

----------------------------------------------------------------------------
(* The Arguments value *)

ZeroArguments ==
  [AskVersion |-> FALSE, Recursive |-> FALSE, Verbose |-> FALSE, Quiet |-> FALSE,
   OutputPath |-> <<>>, Includes |-> <<>>, Plugins |-> <<>>, Langs |-> <<>>,
   IDL |-> <<>>]

\* mutant: a value already present is not recorded again
StringSlice_Set_Dedup(ss, value) ==
  IF \E i \in 1..Len(ss) : ss[i] = value THEN ss ELSE Append(ss, value)

\* StringSlice.Set
StringSlice_Set(ss, value) == Append(ss, value)

\* mutant: the long spellings of the boolean options are bound to the next option's field
formal_Misbound ==
  [n \in {n_version, n_r, n_recurse, n_v, n_verbose, n_q, n_quiet, n_o, n_out,
          n_i, n_include, n_g, n_gen, n_p, n_plugin} |->
     CASE n = n_version            -> [kind |-> "bool",   field |-> "AskVersion"]
       [] n \in {n_r, n_quiet}     -> [kind |-> "bool",   field |-> "Recursive"]
       [] n \in {n_v, n_recurse}   -> [kind |-> "bool",   field |-> "Verbose"]
       [] n \in {n_q, n_verbose}   -> [kind |-> "bool",   field |-> "Quiet"]
       [] n \in {n_o, n_out}       -> [kind |-> "string", field |-> "OutputPath"]
       [] n \in {n_i, n_include}   -> [kind |-> "slice",  field |-> "Includes"]
       [] n \in {n_g, n_gen}       -> [kind |-> "slice",  field |-> "Langs"]
       [] n \in {n_p, n_plugin}    -> [kind |-> "slice",  field |-> "Plugins"]]

\* The flags BuildFlags declares: name -> shape and the field it is bound to.
formal ==
  [n \in {n_version, n_r, n_recurse, n_v, n_verbose, n_q, n_quiet, n_o, n_out,
          n_i, n_include, n_g, n_gen, n_p, n_plugin} |->
     CASE n = n_version            -> [kind |-> "bool",   field |-> "AskVersion"]
       [] n \in {n_r, n_recurse}   -> [kind |-> "bool",   field |-> "Recursive"]
       [] n \in {n_v, n_verbose}   -> [kind |-> "bool",   field |-> "Verbose"]
       [] n \in {n_q, n_quiet}     -> [kind |-> "bool",   field |-> "Quiet"]
       [] n \in {n_o, n_out}       -> [kind |-> "string", field |-> "OutputPath"]
       [] n \in {n_i, n_include}   -> [kind |-> "slice",  field |-> "Includes"]
       [] n \in {n_g, n_gen}       -> [kind |-> "slice",  field |-> "Langs"]
       [] n \in {n_p, n_plugin}    -> [kind |-> "slice",  field |-> "Plugins"]]

\* BoolVar and StringVar store the default through the pointer when the flag is declared.
BuildFlagsDefaults(cfg) ==
  [cfg EXCEPT !.AskVersion = FALSE, !.Recursive = FALSE, !.Verbose = FALSE,
              !.Quiet = FALSE, !.OutputPath = <<>>]

----------------------------------------------------------------------------
(* flag.FlagSet.parseOne, as used through f.Parse(argv[1:]) *)

\* strconv.ParseBool
TrueStrings  == {<<"1">>, <<"t">>, <<"T">>, <<"T","R","U","E">>, s_true, <<"T","r","u","e">>}
FalseStrings == {<<"0">>, <<"f">>, <<"F">>, <<"F","A","L","S","E">>, s_false, <<"F","a","l","s","e">>}

\* index of the first "=" after the first character of name, 0 when there is none
EqIndex(name) ==
  LET I == {i \in 2..Len(name) : name[i] = "="}
  IN IF I = {} THEN 0 ELSE CHOOSE i \in I : \A j \in I : i <= j

\* Value.Set for the three shapes of flag
SetFlag(cfg, fl, value) ==
  IF fl.kind = "slice"
    THEN [cfg EXCEPT ![fl.field] = StringSlice_Set(cfg[fl.field], value)]
    ELSE [cfg EXCEPT ![fl.field] = value]

Outcome(kind, cfg, rem, e, occ) ==
  [kind |-> kind, a |-> cfg, args |-> rem, err |-> e, occ |-> occ]

\* One step of the flag loop on configuration cfg and remaining tokens rem.
\* kind: "seen" (a flag was consumed), "done" (flags are over), "help", "fail".
parseOne(cfg, rem) ==
  IF Len(rem) = 0 THEN Outcome("done", cfg, rem, "", <<>>)
  ELSE
  LET s == Head(rem) IN
  IF Len(s) < 2 \/ s[1] # "-" THEN Outcome("done", cfg, rem, "", <<>>)
  ELSE
  LET numMinuses == IF s[2] = "-" THEN 2 ELSE 1 IN
  IF numMinuses = 2 /\ Len(s) = 2 THEN Outcome("done", cfg, Tail(rem), "", <<>>)
  ELSE
  LET name0 == SubSeq(s, numMinuses + 1, Len(s)) IN
  IF Len(name0) = 0 \/ name0[1] = "-" \/ name0[1] = "="
    THEN Outcome("fail", cfg, rem, "bad flag syntax", <<>>)
  ELSE
  LET eq       == EqIndex(name0)
      hasValue == eq # 0
      name     == IF hasValue THEN SubSeq(name0, 1, eq - 1) ELSE name0
      value    == IF hasValue THEN SubSeq(name0, eq + 1, Len(name0)) ELSE <<>>
      rest     == Tail(rem)
  IN
  IF name \notin DOMAIN formal
    THEN IF name = n_help \/ name = n_h
           THEN Outcome("help", cfg, rest, "ErrHelp", <<>>)
           ELSE Outcome("fail", cfg, rest, "flag provided but not defined", <<>>)
  ELSE
  LET fl == formal[name] IN
  IF fl.kind = "bool"
    THEN IF hasValue
           THEN IF value \in TrueStrings \cup FalseStrings
                  THEN Outcome("seen", SetFlag(cfg, fl, value \in TrueStrings), rest, "",
                               <<name, value \in TrueStrings>>)
                  ELSE Outcome("fail", cfg, rest, "invalid boolean value", <<>>)
           ELSE Outcome("seen", SetFlag(cfg, fl, TRUE), rest, "", <<name, TRUE>>)
    ELSE IF ~hasValue /\ Len(rest) = 0
           THEN Outcome("fail", cfg, rest, "flag needs an argument", <<>>)
           ELSE LET val == IF hasValue THEN value ELSE Head(rest)
                    rem2 == IF hasValue THEN rest ELSE Tail(rest)
                IN Outcome("seen", SetFlag(cfg, fl, val), rem2, "", <<name, val>>)

Line(ev, n) == [ev |-> ev, n |-> n]

----------------------------------------------------------------------------
(* Arguments.Parse *)

ConsumerUnchanged == UNCHANGED <<parser, calls, ret, logs, opts, text>>

\* f := a.BuildFlags(); f.Parse(argv[1:]) starts on the tokens after the program name
BuildFlags ==
  /\ pc = "start" /\ status = Running
  /\ a' = BuildFlagsDefaults(a)
  /\ args' = Tail(argv)
  /\ pc' = "flags"
  /\ UNCHANGED <<argv, status, stderr, err, trail>>
  /\ ConsumerUnchanged

\* the flag loop consumes one flag (and its value)
parseOneSeen ==
  /\ pc = "flags" /\ status = Running
  /\ LET o == parseOne(a, args) IN
       /\ o.kind = "seen"
       /\ a' = o.a
       /\ args' = o.args
       /\ trail' = Append(trail, o.occ)
  /\ UNCHANGED <<argv, pc, status, stderr, err>>
  /\ ConsumerUnchanged

\* the flag loop ends: no token left, a non-flag token, or the "--" terminator
parseOneDone ==
  /\ pc = "flags" /\ status = Running
  /\ LET o == parseOne(a, args) IN
       /\ o.kind = "done"
       /\ args' = o.args
  /\ pc' = "version"
  /\ UNCHANGED <<a, argv, status, stderr, err, trail>>
  /\ ConsumerUnchanged

\* help: prints the usage text and leaves the process with status 2
help(out) == Append(out, Line("usage", 0))

\* mutant: the error is reported like a fatal log line, without the usage text
parseOneFail_NoUsage ==
  /\ pc = "flags" /\ status = Running
  /\ LET o == parseOne(a, args) IN
       /\ o.kind = "fail"
       /\ args' = o.args
       /\ err' = o.err
       /\ stderr' = Append(stderr, Line("error", 0))
  /\ status' = 1
  /\ UNCHANGED <<a, argv, pc, trail>>
  /\ ConsumerUnchanged

\* failf prints the error and calls f.Usage = help, which exits
parseOneFail ==
  /\ pc = "flags" /\ status = Running
  /\ LET o == parseOne(a, args) IN
       /\ o.kind = "fail"
       /\ args' = o.args
       /\ err' = o.err
       /\ stderr' = help(Append(stderr, Line("error", 0)))
  /\ status' = 2
  /\ UNCHANGED <<a, argv, pc, trail>>
  /\ ConsumerUnchanged

\* -h / --help are not declared: parseOne calls f.Usage = help, which exits
parseOneHelp ==
  /\ pc = "flags" /\ status = Running
  /\ LET o == parseOne(a, args) IN
       /\ o.kind = "help"
       /\ args' = o.args
       /\ err' = o.err
       /\ stderr' = help(stderr)
  /\ status' = 2
  /\ UNCHANGED <<a, argv, pc, trail>>
  /\ ConsumerUnchanged

\* mutant: the positional count is validated before the version flag is looked at
ParseVersion_AfterCount ==
  /\ pc = "version" /\ status = Running
  /\ IF a.AskVersion /\ Len(args) = 1
       THEN /\ stderr' = Append(stderr, Line("version", 0))
            /\ status' = 0
            /\ pc' = pc
       ELSE /\ pc' = "rest"
            /\ UNCHANGED <<stderr, status>>
  /\ UNCHANGED <<a, argv, args, err, trail>>
  /\ ConsumerUnchanged

\* if a.AskVersion { println("thriftgo", Version); os.Exit(0) }
ParseVersion ==
  /\ pc = "version" /\ status = Running
  /\ IF a.AskVersion
       THEN /\ stderr' = Append(stderr, Line("version", 0))
            /\ status' = 0
            /\ pc' = pc
       ELSE /\ pc' = "rest"
            /\ UNCHANGED <<stderr, status>>
  /\ UNCHANGED <<a, argv, args, err, trail>>
  /\ ConsumerUnchanged

\* mutant: only the absence of a positional token is rejected
ParseRest_AtLeastOne ==
  /\ pc = "rest" /\ status = Running
  /\ IF Len(args) < 1
       THEN /\ stderr' = Append(stderr, Line("count", Len(args)))
            /\ status' = 2
            /\ UNCHANGED <<a, pc>>
       ELSE /\ a' = [a EXCEPT !.IDL = args[1]]
            /\ pc' = "returned"
            /\ UNCHANGED <<stderr, status>>
  /\ UNCHANGED <<argv, args, err, trail>>
  /\ ConsumerUnchanged

\* rest := f.Args(); exactly one token must remain, and it becomes a.IDL
ParseRest ==
  /\ pc = "rest" /\ status = Running
  /\ IF Len(args) # 1
       THEN /\ stderr' = Append(stderr, Line("count", Len(args)))
            /\ status' = 2
            /\ UNCHANGED <<a, pc>>
       ELSE /\ a' = [a EXCEPT !.IDL = args[1]]
            /\ pc' = "returned"
            /\ UNCHANGED <<stderr, status>>
  /\ UNCHANGED <<argv, args, err, trail>>
  /\ ConsumerUnchanged

ParseNext ==
  \/ BuildFlags
  \/ parseOneSeen
  \/ parseOneDone
  \/ parseOneFail
  \/ parseOneHelp
  \/ ParseVersion
  \/ ParseRest

\* The tokens of the command lines explored.
Tokens ==
  { s_a, s_b, <<>>, <<"-">>, <<"-","-">>,
    DashDash(n_version), Eq(DashDash(n_version), s_false),
    Dash(n_r), Eq(Dash(n_v), n_x),
    Dash(n_o), Eq(DashDash(n_include), s_a),
    Dash(n_x), Dash(n_h), <<"-","-","-","r">> }

prog == <<"t","h","r","i","f","t","g","o">>

InitWith(tokens, n) ==
  /\ argv \in {<<prog>> \o t : t \in SeqUpTo(tokens, n)}
  /\ a = ZeroArguments
  /\ args = <<>>
  /\ pc = "start"
  /\ status = Running
  /\ stderr = <<>>
  /\ err = ""
  /\ trail = <<>>
  /\ parser = {}
  /\ calls = <<>>
  /\ ret = <<>>
  /\ logs = <<>>
  /\ opts = <<>>
  /\ text = <<>>

Init == InitWith(Tokens, MaxArgs)

Spec == Init /\ [][ParseNext]_vars

----------------------------------------------------------------------------
(* Properties of Parse *)

FlagsParsed == pc \in {"version", "rest", "returned"}
ParseEnded  == status # Running \/ pc = "returned"
Last(q)     == q[Len(q)]

\* C1: when flag parsing succeeded and the version flag is not set, Parse ends
\* with status 2 if zero or two or more tokens remain (reporting that count), and
\* with exactly one remaining token it returns with IDL equal to that token.
C1_PositionalCount ==
  (ParseEnded /\ FlagsParsed /\ ~a.AskVersion) =>
     /\ args = SubSeq(argv, Len(argv) - Len(args) + 1, Len(argv))
     /\ IF Len(args) = 1
          THEN pc = "returned" /\ status = Running /\ a.IDL = args[1]
          ELSE status = 2 /\ Last(stderr) = Line("count", Len(args)) /\ a.IDL = <<>>

C1_Witness ==
  /\ pc = "rest" /\ status = 2 /\ Len(args) = 2 /\ trail # <<>>

\* C2: when flag parsing succeeded with the version flag set, Parse ends with
\* status 0 at the version check, whatever number of tokens remains; the
\* positional count is never examined and no count error is ever printed.
C2_VersionFirst ==
  /\ (a.AskVersion => pc \notin {"rest", "returned"})
  /\ (FlagsParsed /\ a.AskVersion /\ ParseEnded) =>
        /\ status = 0
        /\ pc = "version"
        /\ Last(stderr) = Line("version", 0)
        /\ \A i \in 1..Len(stderr) : stderr[i].ev # "count"
  /\ (status = 2 /\ pc = "rest") => ~a.AskVersion

C2_Witness ==
  /\ pc = "version" /\ status = 0 /\ a.AskVersion /\ Len(args) = 0

\* Tokens that are an undeclared flag, a malformed value of a typed flag, or
\* malformed flag syntax.
BadFlagTokens == {Dash(n_x), Eq(Dash(n_v), n_x), <<"-","-","-","r">>}

AtBadFlag ==
  /\ pc = "flags" /\ status = Running /\ args # <<>>
  /\ \/ Head(args) \in BadFlagTokens
     \/ Head(args) = Dash(n_o) /\ Len(args) = 1

\* C3: when the flag loop meets an unrecognized flag or a malformed value, the
\* error is printed, then the usage text, and the process ends with status 2,
\* wherever the bad flag stands and whatever flags came before it; IDL stays unset.
C3_BadFlagFails ==
  [][AtBadFlag =>
       /\ status' = 2
       /\ stderr' = <<Line("error", 0), Line("usage", 0)>>
       /\ a'.IDL = <<>>
       /\ pc' = "flags"]_vars

C3_Witness ==
  /\ pc = "flags" /\ status = 2 /\ err = "flag provided but not defined"
  /\ a.AskVersion /\ Len(argv) = 3

\* C6: after Parse returns, IDL is non-empty and is the sole remaining token.
C6_IDLNonEmpty ==
  pc = "returned" => (a.IDL # <<>> /\ args = <<a.IDL>>)

----------------------------------------------------------------------------
(* Repeatable flags and aliases *)

\* Command lines that repeat -i/--include, -g/--gen and -p/--plugin.
RepeatTokens ==
  { s_a, Dash(n_i), Eq(Dash(n_i), s_a), Eq(DashDash(n_include), s_b),
    Dash(n_g), Eq(DashDash(n_gen), s_b), Eq(Dash(n_p), s_a), DashDash(n_plugin),
    DashDash(n_version), Dash(n_x), Dash(n_h) }

InitRepeat == InitWith(RepeatTokens, MaxArgs + 1)

SpecRepeat == InitRepeat /\ [][ParseNext]_vars

\* Command lines that mix the spellings of the boolean options and of -o/--out.
AliasTokens ==
  { s_a, Dash(n_r), Eq(DashDash(n_recurse), s_false), Dash(n_v),
    Eq(DashDash(n_verbose), s_false), Eq(Dash(n_q), s_false), DashDash(n_quiet),
    Dash(n_o), Eq(DashDash(n_out), s_b),
    DashDash(n_version), Dash(n_x), Dash(n_h) }

InitAlias == InitWith(AliasTokens, MaxArgs)

SpecAlias == InitAlias /\ [][ParseNext]_vars

\* the occurrences, in command-line order, of the flags spelled as in names
RECURSIVE ValuesOf(_, _)
ValuesOf(occs, names) ==
  IF occs = <<>> THEN <<>>
  ELSE IF Head(occs)[1] \in names
         THEN <<Head(occs)[2]>> \o ValuesOf(Tail(occs), names)
         ELSE ValuesOf(Tail(occs), names)

LastOf(names, default) ==
  LET vs == ValuesOf(trail, names) IN IF vs = <<>> THEN default ELSE vs[Len(vs)]

\* C5: after a successful Parse, Includes is exactly the sequence of values given
\* to -i/--include in command-line order, duplicates kept, whatever other flags
\* are interleaved; likewise Langs for -g/--gen and Plugins for -p/--plugin.
C5_RepeatedInOrder ==
  pc = "returned" =>
    /\ a.Includes = ValuesOf(trail, {n_i, n_include})
    /\ a.Langs    = ValuesOf(trail, {n_g, n_gen})
    /\ a.Plugins  = ValuesOf(trail, {n_p, n_plugin})

C5_Witness ==
  /\ pc = "returned"
  /\ a.Includes = <<s_a, s_b, s_a>>
  /\ argv = <<prog, Eq(Dash(n_i), s_a), Eq(DashDash(n_include), s_b), Eq(Dash(n_i), s_a), s_a>>

\* C10: both spellings of an option write one field: each of Recursive, Verbose,
\* Quiet and OutputPath holds the value of the last occurrence of either spelling
\* of its own option, and its default when there is none; so no occurrence of one
\* option changes the field of another.
C10_SharedCell ==
  pc # "start" =>
    /\ a.Recursive  = LastOf({n_r, n_recurse}, FALSE)
    /\ a.Verbose    = LastOf({n_v, n_verbose}, FALSE)
    /\ a.Quiet      = LastOf({n_q, n_quiet}, FALSE)
    /\ a.OutputPath = LastOf({n_o, n_out}, <<>>)

C10_Witness ==
  /\ pc = "returned"
  /\ trail = <<<<n_r, TRUE>>, <<n_recurse, FALSE>>>>
  /\ ~a.Recursive

----------------------------------------------------------------------------
(* Arguments.UsedPlugins and Arguments.Targets *)

NoError == [msg |-> "", arg |-> <<>>]

\* index of the first ":" of str, 0 when there is none
ColonIndex(str) ==
  LET I == {i \in 1..Len(str) : str[i] = ":"}
  IN IF I = {} THEN 0 ELSE CHOOSE i \in I : \A j \in I : i <= j

\* plugin.ParseCompactArguments: string -> {Name, Options} | failure.
\* rej is the set of strings the parser rejects.
ParseCompactArguments(rej, str) ==
  IF str \in rej
    THEN [desc |-> [Name |-> <<>>, Options |-> <<>>],
          err |-> [msg |-> "ParseCompactArguments", arg |-> str]]
    ELSE LET c == ColonIndex(str) IN
         [desc |-> [Name    |-> IF c = 0 THEN str ELSE SubSeq(str, 1, c - 1),
                    Options |-> IF c = 0 THEN <<>> ELSE SubSeq(str, c + 1, Len(str))],
          err |-> NoError]

\* mutant: on a failure the descriptors parsed so far are returned with the error
RECURSIVE UsedPluginsLoop_Partial(_, _, _, _)
UsedPluginsLoop_Partial(rej, strs, descs, invoked) ==
  IF strs = <<>> THEN [list |-> descs, err |-> NoError, invoked |-> invoked]
  ELSE LET r == ParseCompactArguments(rej, Head(strs)) IN
       IF r.err # NoError
         THEN [list |-> descs, err |-> r.err, invoked |-> Append(invoked, Head(strs))]
         ELSE UsedPluginsLoop_Partial(rej, Tail(strs), Append(descs, r.desc),
                                      Append(invoked, Head(strs)))

\* the loop of UsedPlugins over the entries strs still to parse
RECURSIVE UsedPluginsLoop(_, _, _, _)
UsedPluginsLoop(rej, strs, descs, invoked) ==
  IF strs = <<>> THEN [list |-> descs, err |-> NoError, invoked |-> invoked]
  ELSE LET r == ParseCompactArguments(rej, Head(strs)) IN
       IF r.err # NoError
         THEN [list |-> <<>>, err |-> r.err, invoked |-> Append(invoked, Head(strs))]
         ELSE UsedPluginsLoop(rej, Tail(strs), Append(descs, r.desc),
                              Append(invoked, Head(strs)))

LangSpec(desc) == [Language |-> desc.Name, Options |-> desc.Options]

\* the loop of Targets over the entries langs still to parse
RECURSIVE TargetsLoop(_, _, _, _)
TargetsLoop(rej, langs, specs, invoked) ==
  IF langs = <<>> THEN [list |-> specs, err |-> NoError, invoked |-> invoked]
  ELSE LET r == ParseCompactArguments(rej, Head(langs)) IN
       IF r.err # NoError
         THEN [list |-> <<>>, err |-> r.err, invoked |-> Append(invoked, Head(langs))]
         ELSE TargetsLoop(rej, Tail(langs), Append(specs, LangSpec(r.desc)),
                          Append(invoked, Head(langs)))

ParseUnchanged == UNCHANGED <<a, argv, args, pc, status, err, trail>>

UsedPlugins ==
  /\ pc = "returned" /\ status = Running
  /\ LET r == UsedPluginsLoop(parser, a.Plugins, <<>>, <<>>) IN
       /\ ret' = [fn |-> "UsedPlugins", list |-> r.list, err |-> r.err]
       /\ calls' = r.invoked
  /\ ParseUnchanged
  /\ UNCHANGED <<stderr, parser, logs, opts, text>>

Targets ==
  /\ pc = "returned" /\ status = Running
  /\ LET r == TargetsLoop(parser, a.Langs, <<>>, <<>>) IN
       /\ ret' = [fn |-> "Targets", list |-> r.list, err |-> r.err]
       /\ calls' = r.invoked
  /\ ParseUnchanged
  /\ UNCHANGED <<stderr, parser, logs, opts, text>>

s_p1    == <<"p","1">>
s_bad   == <<"b","a","d">>
s_go_x  == <<"g","o",":","x">>

SpecStrings == {s_p1, s_bad, s_go_x}

\* The state after a successful Parse, for the configurations cfgs.
InitReturned(cfgs) ==
  /\ a \in cfgs
  /\ argv = <<prog>>
  /\ args = <<>>
  /\ pc = "returned"
  /\ status = Running
  /\ stderr = <<>>
  /\ err = ""
  /\ trail = <<>>
  /\ calls = <<>>
  /\ ret = [fn |-> "", list |-> <<>>, err |-> NoError]
  /\ logs = <<>>
  /\ opts = <<>>
  /\ text = <<>>

InitResolve ==
  /\ InitReturned({[ZeroArguments EXCEPT !.Plugins = ps, !.Langs = ls, !.IDL = s_a] :
                     ps \in SeqUpTo(SpecStrings, MaxEntries),
                     ls \in SeqUpTo(SpecStrings, MaxEntries)})
  /\ parser \in SUBSET SpecStrings

SpecResolve == InitResolve /\ [][UsedPlugins \/ Targets]_vars

\* C4: UsedPlugins over Plugins and Targets over Langs return one descriptor per
\* entry, in the original order, when the parser accepts every entry; when it
\* rejects one, they return the error of the first rejected entry unchanged and
\* no list, and the parser is invoked on no entry after that one.
C4_AllOrNothing ==
  ret.fn \in {"UsedPlugins", "Targets"} =>
    LET entries == IF ret.fn = "UsedPlugins" THEN a.Plugins ELSE a.Langs
        bad     == {i \in 1..Len(entries) : entries[i] \in parser}
        descOf(i) == ParseCompactArguments(parser, entries[i]).desc
    IN IF bad = {}
         THEN /\ ret.err = NoError
              /\ calls = entries
              /\ ret.list = [i \in 1..Len(entries) |->
                               IF ret.fn = "UsedPlugins" THEN descOf(i)
                               ELSE [Language |-> descOf(i).Name, Options |-> descOf(i).Options]]
         ELSE LET k == CHOOSE i \in bad : \A j \in bad : i <= j IN
              /\ ret.err = ParseCompactArguments(parser, entries[k]).err
              /\ ret.err # NoError
              /\ ret.list = <<>>
              /\ calls = SubSeq(entries, 1, k)

C4_Witness ==
  /\ ret.fn = "UsedPlugins"
  /\ a.Plugins = <<s_p1, s_bad, s_go_x>>
  /\ parser = {s_bad}
  /\ ret.list = <<>> /\ ret.err.arg = s_bad
  /\ calls = <<s_p1, s_bad>>

----------------------------------------------------------------------------
(* Arguments.MakeLogFunc *)

\* mutant: Info looks at Verbose alone
MakeLogFuncValue_VerboseOnly(cfg) ==
  [Info      |-> [on |-> cfg.Verbose, prefix |-> "[INFO] "],
   Warn      |-> [on |-> ~cfg.Quiet, prefix |-> "[WARN] "],
   MultiWarn |-> [on |-> ~cfg.Quiet, prefix |-> "[WARN] "]]

\* the three closures, each either writing through its logger or empty
MakeLogFuncValue(cfg) ==
  [Info      |-> [on |-> cfg.Verbose /\ ~cfg.Quiet, prefix |-> "[INFO] "],
   Warn      |-> [on |-> ~cfg.Quiet, prefix |-> "[WARN] "],
   MultiWarn |-> [on |-> ~cfg.Quiet, prefix |-> "[WARN] "]]

Msgs == {"m1", "m2"}

\* logger.Println: one line, the logger's prefix first
Println(prefix, m) == [prefix |-> prefix, msg |-> m]

MakeLogFunc ==
  /\ pc = "returned" /\ status = Running
  /\ logs' = MakeLogFuncValue(a)
  /\ ParseUnchanged
  /\ UNCHANGED <<stderr, parser, calls, ret, opts, text>>

Info ==
  /\ pc = "returned" /\ status = Running
  /\ logs # <<>> /\ Len(calls) < MaxCalls
  /\ \E v \in Msgs :
       /\ stderr' = IF logs.Info.on THEN Append(stderr, Println(logs.Info.prefix, v))
                                    ELSE stderr
       /\ calls' = Append(calls, [fn |-> "Info", ms |-> <<v>>])
  /\ ParseUnchanged
  /\ UNCHANGED <<parser, ret, logs, opts, text>>

Warn ==
  /\ pc = "returned" /\ status = Running
  /\ logs # <<>> /\ Len(calls) < MaxCalls
  /\ \E v \in Msgs :
       /\ stderr' = IF logs.Warn.on THEN Append(stderr, Println(logs.Warn.prefix, v))
                                    ELSE stderr
       /\ calls' = Append(calls, [fn |-> "Warn", ms |-> <<v>>])
  /\ ParseUnchanged
  /\ UNCHANGED <<parser, ret, logs, opts, text>>

MultiWarn ==
  /\ pc = "returned" /\ status = Running
  /\ logs # <<>> /\ Len(calls) < MaxCalls
  /\ \E ws \in SeqUpTo(Msgs, MaxBatch) :
       /\ stderr' = IF logs.MultiWarn.on
                      THEN stderr \o [i \in 1..Len(ws) |-> Println(logs.MultiWarn.prefix, ws[i])]
                      ELSE stderr
       /\ calls' = Append(calls, [fn |-> "MultiWarn", ms |-> ws])
  /\ ParseUnchanged
  /\ UNCHANGED <<parser, ret, logs, opts, text>>

InitLog ==
  /\ InitReturned({[ZeroArguments EXCEPT !.Verbose = vb, !.Quiet = qt, !.IDL = s_a] :
                     vb \in BOOLEAN, qt \in BOOLEAN})
  /\ parser = {}

SpecLog == InitLog /\ [][MakeLogFunc \/ Info \/ Warn \/ MultiWarn]_vars

\* what the calls cs must have written, by the policy table
RECURSIVE ExpectedLines(_)
ExpectedLines(cs) ==
  IF cs = <<>> THEN <<>>
  ELSE LET c == Head(cs)
           active == IF c.fn = "Info" THEN a.Verbose /\ ~a.Quiet ELSE ~a.Quiet
           tag    == IF c.fn = "Info" THEN "[INFO] " ELSE "[WARN] "
       IN (IF active THEN [i \in 1..Len(c.ms) |-> [prefix |-> tag, msg |-> c.ms[i]]]
                     ELSE <<>>) \o ExpectedLines(Tail(cs))

\* C7: Info is active exactly when Verbose and not Quiet; Warn and MultiWarn are
\* active exactly when not Quiet; an active MultiWarn writes one line per message
\* in the order given, an inactive emitter writes nothing.
C7_LogPolicy ==
  logs # <<>> =>
    /\ logs.Info.on = (a.Verbose /\ ~a.Quiet)
    /\ logs.Warn.on = ~a.Quiet
    /\ logs.MultiWarn.on = ~a.Quiet
    /\ stderr = ExpectedLines(calls)

C7_Witness ==
  /\ a.Verbose /\ a.Quiet
  /\ calls = <<[fn |-> "Info", ms |-> <<"m1">>], [fn |-> "MultiWarn", ms |-> <<"m1", "m2">>]>>
  /\ stderr = <<>>

----------------------------------------------------------------------------
(* align *)

Spaces(n) == [i \in 1..n |-> " "]

\* the first loop of align: the running maximum of the name lengths
RECURSIVE MaxNameLen(_, _)
MaxNameLen(os, max) ==
  IF os = <<>> THEN max
  ELSE MaxNameLen(Tail(os), IF max <= Len(Head(os).Name) THEN Len(Head(os).Name) ELSE max)

\* mutant: every row gets the same two spaces of padding
alignRow_NoPad(name, desc, max) ==
  <<" ", " ", " ", " ">> \o name \o <<":">> \o Spaces(2) \o desc

\* fmt.Sprintf("    %s:%s%s", name, strings.Repeat(" ", 2 + max - len(name)), desc)
alignRow(name, desc, max) ==
  <<" ", " ", " ", " ">> \o name \o <<":">> \o Spaces(2 + max - Len(name)) \o desc

\* strings.Join
RECURSIVE Join(_, _)
Join(ss, sep) ==
  IF ss = <<>> THEN <<>>
  ELSE IF Len(ss) = 1 THEN ss[1]
  ELSE ss[1] \o sep \o Join(Tail(ss), sep)

alignText(os) ==
  LET max == MaxNameLen(os, 0)
  IN Join([i \in 1..Len(os) |-> alignRow(os[i].Name, os[i].Desc, max)], <<"\n">>)

align ==
  /\ pc = "help"
  /\ text' = alignText(opts)
  /\ pc' = "aligned"
  /\ UNCHANGED <<a, argv, args, status, stderr, err, trail, parser, calls, ret, logs, opts>>

OptNames == {<<"a">>, <<"b","b">>, <<"c","c","c">>}
OptDescs == {<<>>, <<"D">>, <<"D","e">>}

InitAlign ==
  /\ opts \in SeqUpTo([Name : OptNames, Desc : OptDescs], MaxOpts)
  /\ pc = "help"
  /\ a = ZeroArguments
  /\ argv = <<prog>>
  /\ args = <<>>
  /\ status = Running
  /\ stderr = <<>>
  /\ err = ""
  /\ trail = <<>>
  /\ parser = {}
  /\ calls = <<>>
  /\ ret = <<>>
  /\ logs = <<>>
  /\ text = <<>>

SpecAlign == InitAlign /\ [][align]_vars

\* the lines of t
RECURSIVE SplitLines(_, _)
SplitLines(t, cur) ==
  IF t = <<>> THEN <<cur>>
  ELSE IF Head(t) = "\n" THEN <<cur>> \o SplitLines(Tail(t), <<>>)
  ELSE SplitLines(Tail(t), Append(cur, Head(t)))

Rows == IF opts = <<>> THEN <<>> ELSE SplitLines(text, <<>>)

LongestName ==
  IF opts = <<>> THEN 0
  ELSE LET L == {Len(opts[i].Name) : i \in 1..Len(opts)}
       IN CHOOSE m \in L : \A n \in L : n <= m

\* row holds desc from offset off (counted from 0) to its end, after the
\* indentation, the name, the colon and spaces only
DescriptionAt(row, name, desc, off) ==
  /\ Len(row) = off + Len(desc)
  /\ SubSeq(row, off + 1, Len(row)) = desc
  /\ SubSeq(row, 1, 4 + Len(name) + 1) = <<" ", " ", " ", " ">> \o name \o <<":">>
  /\ \A i \in (4 + Len(name) + 2)..off : row[i] = " "

\* C8 as stated: the description of every row begins at offset
\* 4 + (longest option name) + 2.
C8_OffsetAsStated ==
  pc = "aligned" =>
    /\ Len(Rows) = Len(opts)
    /\ \A i \in 1..Len(opts) :
         DescriptionAt(Rows[i], opts[i].Name, opts[i].Desc, 4 + LongestName + 2)

\* C8, amended: there is one row per option, and the description of every row
\* begins at offset 4 + (longest option name) + 3, whatever the row's own name
\* length: four spaces, the name, a colon, then padding up to that column.
C8_DescriptionColumn ==
  pc = "aligned" =>
    /\ Len(Rows) = Len(opts)
    /\ \A i \in 1..Len(opts) :
         DescriptionAt(Rows[i], opts[i].Name, opts[i].Desc, 4 + LongestName + 3)

C8_Witness ==
  /\ pc = "aligned"
  /\ opts = <<[Name |-> <<"a">>, Desc |-> <<"D">>], [Name |-> <<"b","b">>, Desc |-> <<"D","e">>]>>
  /\ Rows[1][10] = "D" /\ Rows[2][10] = "D"

----------------------------------------------------------------------------
(* Arguments.Output *)

s_gen == <<".", "/", "g", "e", "n", "-">>
s_go   == <<"g","o">>
s_rust == <<"r","u","s","t">>

\* mutant: the length test lets the unset path through
Output_AlwaysPath(cfg, lang) ==
  IF Len(cfg.OutputPath) >= 0 THEN cfg.OutputPath ELSE s_gen \o lang

Output(cfg, lang) ==
  IF Len(cfg.OutputPath) > 0 THEN cfg.OutputPath ELSE s_gen \o lang

OutputCall ==
  /\ pc = "returned" /\ status = Running
  /\ Len(calls) < MaxCalls
  /\ \E lang \in {s_go, s_rust, <<>>} :
       /\ ret' = Output(a, lang)
       /\ calls' = Append(calls, [lang |-> lang, path |-> Output(a, lang)])
  /\ ParseUnchanged
  /\ UNCHANGED <<stderr, parser, logs, opts, text>>

InitOutput ==
  /\ InitReturned({[ZeroArguments EXCEPT !.OutputPath = o, !.Verbose = vb, !.IDL = f] :
                     o \in {<<>>, n_out, s_a}, vb \in BOOLEAN, f \in {s_a, s_b}})
  /\ parser = {}

SpecOutput == InitOutput /\ [][OutputCall]_vars

\* C9: every Output call returns OutputPath verbatim when it is set and
\* "./gen-" followed by the language otherwise, whatever calls came before it,
\* and no call changes the configuration.
C9_OutputPure ==
  /\ [](\A i \in 1..Len(calls) :
          calls[i].path = IF a.OutputPath # <<>> THEN a.OutputPath
                          ELSE <<".", "/", "g", "e", "n", "-">> \o calls[i].lang)
  /\ [][a' = a]_vars

C9_Witness ==
  /\ a.OutputPath = <<>>
  /\ calls = <<[lang |-> s_go, path |-> <<".", "/", "g", "e", "n", "-", "g", "o">>],
               [lang |-> s_rust, path |-> <<".", "/", "g", "e", "n", "-", "r", "u", "s", "t">>]>>

====
